---- MODULE Spec2Model ----
(***************************************************************************)
(* Model of servers/s3/main.py: three FastAPI routes over an S3 store.     *)
(*   POST /analyze_s3_object     analyze_s3_object(S3ObjectInput)          *)
(*   POST /get_s3_object_stats   get_s3_object_stats(S3ObjectInput)        *)
(*   POST /get_s3_bucket_stats   get_s3_object_stats(S3BucketInput)        *)
(* and the helpers get_file_extension, object_to_dataframe and             *)
(* get_object_statistics.                                                  *)
(*                                                                         *)
(* Text is a sequence of one-character strings.  A Python str value is     *)
(* Str(chars), Python None is None.  A table cell is Null, IntCell(n) or   *)
(* TxtCell(chars).                                                         *)
(***************************************************************************)
EXTENDS Integers, Sequences, FiniteSets, TLC

VARIABLES
    creds,      \* the process-wide credentials read from the environment
    store,      \* the content of the object store
    pc,         \* per request slot: the position of its handler
    req,        \* per request slot: the request being served
    local,      \* per request slot: the handler's local variables
    resp,       \* per request slot: the HTTP response
    calls,      \* per request slot: the store operations invoked so far
    fnPc,       \* helper pipeline: position
    fnKey,      \* helper pipeline: object key
    fnBody,     \* helper pipeline: object body
    fnExt,      \* helper pipeline: file_extension
    fnFrame,    \* helper pipeline: result of object_to_dataframe
    fnStats     \* helper pipeline: result of get_object_statistics

svars == <<creds, store, pc, req, local, resp, calls>>
fvars == <<fnPc, fnKey, fnBody, fnExt, fnFrame, fnStats>>
vars == <<creds, store, pc, req, local, resp, calls,
          fnPc, fnKey, fnBody, fnExt, fnFrame, fnStats>>

-----------------------------------------------------------------------------
(* Bounds of the model. *)

\* rows of the large CSV object beyond the preview limit
ExtraRows == 2
\* longest object key enumerated over KeyAlphabet
MaxKeyLen == 3
\* most data rows of an enumerated CSV body
MaxCsvRows == 2

\* dataframe.head(50)
HeadLimit == 50

-----------------------------------------------------------------------------
(* Values. *)

None == [none |-> TRUE]
Str(cs) == [str |-> cs]
IsStr(v) == DOMAIN v = {"str"}

Null == [k |-> "null"]
IntCell(n) == [k |-> "int", v |-> n]
TxtCell(cs) == [k |-> "txt", s |-> cs]

Min(a, b) == IF a <= b THEN a ELSE b
Last(s) == s[Len(s)]
Range(s) == {s[i] : i \in 1..Len(s)}

Ok(v) == [ok |-> TRUE, val |-> v]
Raise(ty, tx) == [ok |-> FALSE, err |-> [type |-> ty, text |-> tx]]

-----------------------------------------------------------------------------
(* str.split(sep): the segments of s between occurrences of sep; always at *)
(* least one segment.                                                      *)

\* the first position of sep in s at or after start, or Len(s) + 1
NextSep(s, sep, start) ==
    IF \E p \in start..Len(s) : s[p] = sep
    THEN CHOOSE p \in start..Len(s) :
            s[p] = sep /\ \A j \in start..(p - 1) : s[j] # sep
    ELSE Len(s) + 1

RECURSIVE SplitFrom(_, _, _)
SplitFrom(s, sep, start) ==
    LET p == NextSep(s, sep, start)
    IN  IF p > Len(s) THEN <<SubSeq(s, start, Len(s))>>
        ELSE <<SubSeq(s, start, p - 1)>> \o SplitFrom(s, sep, p + 1)

Split(s, sep) == SplitFrom(s, sep, 1)

-----------------------------------------------------------------------------
(* get_file_extension(object_key)                                          *)

get_file_extension_splitext(object_key) ==
    LET parts == Split(object_key.str, ".")
    IN  IF Len(parts) > 1 THEN Str(Last(parts)) ELSE None

get_file_extension(object_key) ==
    LET extension == Str(Last(Split(object_key.str, ".")))
    IN  IF extension # None THEN extension ELSE None

-----------------------------------------------------------------------------
(* pandas: read_csv(bytes, sep=';'), read_parquet(bytes), DataFrame.       *)
(* An object body is [fmt |-> "text", bytes |-> chars] or                  *)
(* [fmt |-> "parquet", frame |-> f] (a Parquet file carries its schema).   *)
(* A frame is [columns, dtypes, rows]; a row is a sequence of cells.       *)

TextBody(cs) == [fmt |-> "text", bytes |-> cs]
ParquetBody(f) == [fmt |-> "parquet", frame |-> f]

Digits == {"0", "1", "2", "3", "4", "5", "6", "7", "8", "9"}
DigitVal(c) == CASE c = "0" -> 0 [] c = "1" -> 1 [] c = "2" -> 2 [] c = "3" -> 3
                 [] c = "4" -> 4 [] c = "5" -> 5 [] c = "6" -> 6 [] c = "7" -> 7
                 [] c = "8" -> 8 [] c = "9" -> 9

Digits10(d) == CASE d = 0 -> "0" [] d = 1 -> "1" [] d = 2 -> "2" [] d = 3 -> "3"
                 [] d = 4 -> "4" [] d = 5 -> "5" [] d = 6 -> "6" [] d = 7 -> "7"
                 [] d = 8 -> "8" [] d = 9 -> "9"

RECURSIVE ToInt(_, _)
ToInt(cs, i) == IF i = 0 THEN 0 ELSE 10 * ToInt(cs, i - 1) + DigitVal(cs[i])

IsNumeric(cs) == cs # <<>> /\ \A i \in 1..Len(cs) : cs[i] \in Digits

\* the fields of one data line, padded with missing values to the header's width
Fields(line, width) ==
    LET fs == Split(line, ";")
    IN  [j \in 1..width |-> IF j <= Len(fs) THEN fs[j] ELSE <<>>]

\* type inference of one column from its text fields
InferDtype(col) ==
    IF col = <<>> THEN "object"
    ELSE IF \A i \in 1..Len(col) : col[i] = <<>> \/ IsNumeric(col[i])
    THEN IF \E i \in 1..Len(col) : col[i] = <<>> THEN "float64" ELSE "int64"
    ELSE "object"

ParseCell(cs, dtype) ==
    IF cs = <<>> THEN Null
    ELSE IF dtype = "object" THEN TxtCell(cs)
    ELSE IntCell(ToInt(cs, Len(cs)))

NonBlank(lines) == SelectSeq(lines, LAMBDA l : l # <<>>)

read_csv(body) ==
    IF body.fmt # "text"
    THEN Raise("UnicodeDecodeError", "'utf-8' codec can't decode byte")
    ELSE
    LET lines == NonBlank(Split(body.bytes, "\n"))
    IN  IF lines = <<>>
        THEN Raise("EmptyDataError", "No columns to parse from file")
        ELSE
        LET header == Split(lines[1], ";")
            w == Len(header)
            n == Len(lines) - 1
        IN  IF \E i \in 2..Len(lines) : Len(Split(lines[i], ";")) > w
            THEN Raise("ParserError", "Error tokenizing data")
            ELSE
            LET text == [i \in 1..n |-> Fields(lines[i + 1], w)]
                dts == [j \in 1..w |-> InferDtype([i \in 1..n |-> text[i][j]])]
            IN  Ok([columns |-> header,
                    dtypes |-> dts,
                    rows |-> [i \in 1..n |->
                                [j \in 1..w |-> ParseCell(text[i][j], dts[j])]]])

read_parquet(body) ==
    IF body.fmt # "parquet"
    THEN Raise("ArrowInvalid", "Parquet magic bytes not found in footer")
    ELSE Ok(body.frame)

-----------------------------------------------------------------------------
(* object_to_dataframe(data, file_extension)                               *)

EXT_CSV == Str(<<"c", "s", "v">>)
EXT_PARQUET == Str(<<"p", "a", "r", "q", "u", "e", "t">>)

UnsupportedExtension(file_extension) ==
    Raise("ValueError", "Unsupported file extension")

object_to_dataframe_anycsv(data, file_extension) ==
    IF file_extension = EXT_PARQUET THEN read_parquet(data)
    ELSE read_csv(data)

object_to_dataframe(data, file_extension) ==
    IF file_extension = EXT_CSV THEN read_csv(data)
    ELSE IF file_extension = EXT_PARQUET THEN read_parquet(data)
    ELSE UnsupportedExtension(file_extension)

-----------------------------------------------------------------------------
(* get_object_statistics(data)                                             *)

\* data[col].isnull().sum()
RECURSIVE IsnullSum(_, _, _)
IsnullSum(rows, j, i) ==
    IF i = 0 THEN 0
    ELSE IsnullSum(rows, j, i - 1) + (IF rows[i][j] = Null THEN 1 ELSE 0)

get_object_statistics_notnull(data) ==
    [rows |-> [count |-> Len(data.rows)],
     columns |-> [j \in 1..Len(data.columns) |->
        [name |-> data.columns[j],
         type |-> data.dtypes[j],
         null_value_count |->
            Len(data.rows) - IsnullSum(data.rows, j, Len(data.rows))]]]

get_object_statistics(data) ==
    [rows |-> [count |-> Len(data.rows)],
     columns |-> [j \in 1..Len(data.columns) |->
        [name |-> data.columns[j],
         type |-> data.dtypes[j],
         null_value_count |-> IsnullSum(data.rows, j, Len(data.rows))]]]

-----------------------------------------------------------------------------
(* Text constants of the model's environment.                              *)

B_DATA == Str(<<"d", "a", "t", "a">>)
B_EMPTY == Str(<<"e", "m", "p", "t", "y">>)
B_NOPE == Str(<<"n", "o", "p", "e">>)
EMPTY == Str(<<>>)

K_A_CSV == Str(<<"a", ".", "c", "s", "v">>)
K_BIG_CSV == Str(<<"b", "i", "g", ".", "c", "s", "v">>)
K_BAD_CSV == Str(<<"b", "a", "d", ".", "c", "s", "v">>)
K_P_PARQUET == Str(<<"p", ".", "p", "a", "r", "q", "u", "e", "t">>)
K_N_TXT == Str(<<"n", ".", "t", "x", "t">>)
K_D_E_CSV == Str(<<"d", "/", "e", ".", "c", "s", "v">>)
K_ZZ_CSV == Str(<<"z", "z", ".", "c", "s", "v">>)
P_D == Str(<<"d", "/">>)
P_ZZ == Str(<<"z", "z">>)

\* "a;b\n1;2\n;4\nx;\n": two columns, a missing value in each
SmallCsv == <<"a", ";", "b", "\n", "1", ";", "2", "\n", ";", "4", "\n",
              "x", ";", "\n">>

\* "id;v\n" followed by n lines "<i>;<(7i) mod 10>\n", i = 1..n
RowText(i) ==
    (IF i >= 10 THEN <<Digits10(i \div 10)>> ELSE <<>>)
        \o <<Digits10(i % 10), ";", Digits10((7 * i) % 10), "\n">>

RECURSIVE RowsText(_)
RowsText(n) == IF n = 0 THEN <<>> ELSE RowsText(n - 1) \o RowText(n)

BigCsv == <<"i", "d", ";", "v", "\n">> \o RowsText(HeadLimit + ExtraRows)

\* a Parquet file of five rows whose second column has two nulls
FiveRowFrame ==
    [columns |-> << <<"k">>, <<"w">> >>,
     dtypes |-> <<"int64", "float64">>,
     rows |-> << <<IntCell(1), IntCell(5)>>, <<IntCell(2), Null>>,
                 <<IntCell(3), IntCell(6)>>, <<IntCell(4), Null>>,
                 <<IntCell(5), IntCell(8)>> >>]

Tag(k, v) == [Key |-> k, Value |-> v]

Object(key, size, body, tags) ==
    [Key |-> key, Size |-> size, ETag |-> "etag", Body |-> body, TagSet |-> tags]

\* the store: bucket name -> objects in key order
TheStore ==
    (B_DATA :> << Object(K_A_CSV, Len(SmallCsv), TextBody(SmallCsv),
                         <<Tag("owner", "x")>>),
                  Object(K_BAD_CSV, 9, ParquetBody(FiveRowFrame), <<>>),
                  Object(K_BIG_CSV, Len(BigCsv), TextBody(BigCsv), <<>>),
                  Object(K_D_E_CSV, Len(SmallCsv), TextBody(SmallCsv), <<>>),
                  Object(K_N_TXT, 2, TextBody(<<"h", "i">>), <<>>),
                  Object(K_P_PARQUET, 11, ParquetBody(FiveRowFrame),
                         <<Tag("owner", "y"), Tag("env", "t")>>) >>)
    @@ (B_EMPTY :> <<>>)

-----------------------------------------------------------------------------
(* Environment variables and boto3.client(...).                            *)

GoodCreds == [AWS_ACCESS_KEY_ID |-> Str(<<"i", "d">>),
              AWS_SECRET_ACCESS_KEY |-> Str(<<"k">>),
              AWS_ENDPOINT_URL |-> Str(<<"h", "t", "t", "p", ":", "/", "/", "s", "3">>)]
\* AWS_SECRET_ACCESS_KEY is not set in the environment: getenv returns None
PartialCreds == [GoodCreds EXCEPT !.AWS_SECRET_ACCESS_KEY = None]
Environments == {GoodCreds, PartialCreds}

boto3_client(env) ==
    IF (env.AWS_ACCESS_KEY_ID = None) # (env.AWS_SECRET_ACCESS_KEY = None)
    THEN Raise("PartialCredentialsError", "Partial credentials found in explicit")
    ELSE Ok([endpoint_url |-> env.AWS_ENDPOINT_URL,
             aws_access_key_id |-> env.AWS_ACCESS_KEY_ID,
             aws_secret_access_key |-> env.AWS_SECRET_ACCESS_KEY])

-----------------------------------------------------------------------------
(* The store operations of the client.                                     *)

NoPrefix == [noprefix |-> TRUE]

StartsWith(s, p) == Len(p) <= Len(s) /\ SubSeq(s, 1, Len(p)) = p

ParamError(Bucket, Key) ==
    IF Bucket = EMPTY THEN Raise("ParamValidationError", "Invalid bucket name")
    ELSE IF Key = EMPTY
    THEN Raise("ParamValidationError", "Invalid length for parameter Key")
    ELSE Ok(None)

Lookup(st, Bucket, Key) ==
    IF ~ParamError(Bucket, Key).ok THEN ParamError(Bucket, Key)
    ELSE IF Bucket \notin DOMAIN st
    THEN Raise("ClientError", "NoSuchBucket")
    ELSE IF \A i \in 1..Len(st[Bucket]) : st[Bucket][i].Key # Key
    THEN Raise("ClientError", "NoSuchKey")
    ELSE Ok(st[Bucket][CHOOSE i \in 1..Len(st[Bucket]) : st[Bucket][i].Key = Key])

get_object(st, Bucket, Key) ==
    LET o == Lookup(st, Bucket, Key)
    IN  IF o.ok THEN Ok([Body |-> o.val.Body]) ELSE o

get_object_tagging(st, Bucket, Key) ==
    LET o == Lookup(st, Bucket, Key)
    IN  IF o.ok THEN Ok([TagSet |-> o.val.TagSet]) ELSE o

\* Prefix is a Str or NoPrefix; the response has no "Contents" when nothing matches
list_objects_v2(st, Bucket, Prefix) ==
    IF ~ParamError(Bucket, None).ok THEN ParamError(Bucket, None)
    ELSE IF Bucket \notin DOMAIN st
    THEN Raise("ClientError", "NoSuchBucket")
    ELSE
    LET match == SelectSeq(st[Bucket],
                    LAMBDA o : Prefix = NoPrefix \/ StartsWith(o.Key.str, Prefix.str))
        contents == [i \in 1..Len(match) |->
                        [Key |-> match[i].Key, Size |-> match[i].Size,
                         ETag |-> match[i].ETag]]
    IN  Ok([Name |-> Bucket, KeyCount |-> Len(match), Contents |-> contents,
            has |-> {"Name", "KeyCount"}
                    \cup (IF Len(match) > 0 THEN {"Contents"} ELSE {})])

\* response[key]: KeyError when the response has no such member
Member(response, key) ==
    IF key \in response.has THEN Ok(response[key]) ELSE Raise("KeyError", key)

\* response.get("Contents", [])
GetContents(response) ==
    IF "Contents" \in response.has THEN response.Contents ELSE <<>>

-----------------------------------------------------------------------------
(* Requests: a route and a JSON body (a function from member names to      *)
(* values; an absent member is not in its domain, a JSON null is None).    *)

Slots == {1, 2}

Absent == [absent |-> TRUE]

Json2(n1, v1, n2, v2) ==
    [n \in {m \in {n1, n2} : (IF m = n1 THEN v1 ELSE v2) # Absent} |->
        IF n = n1 THEN v1 ELSE v2]

BucketNames == {Absent, EMPTY, B_DATA, B_EMPTY, B_NOPE}
ObjectKeys == {Absent, EMPTY, K_A_CSV, K_BIG_CSV, K_BAD_CSV, K_P_PARQUET,
               K_N_TXT, K_ZZ_CSV}
ObjectPrefixes == {Absent, None, EMPTY, P_D, P_ZZ}

ObjectRoutes == {"/analyze_s3_object", "/get_s3_object_stats"}
BucketRoute == "/get_s3_bucket_stats"

Requests ==
    {[route |-> ro, json |-> Json2("bucket_name", b, "object_key", k)] :
        ro \in ObjectRoutes, b \in BucketNames, k \in ObjectKeys}
    \cup
    {[route |-> BucketRoute, json |-> Json2("bucket_name", b, "object_prefix", p)] :
        b \in BucketNames, p \in ObjectPrefixes}

NoRequest == [route |-> "", json |-> <<>>]
NoResponse == [http |-> 0]

-----------------------------------------------------------------------------
(* The pydantic models.  Field(...) makes a member required; Optional[str] *)
(* also admits null.                                                       *)

Required(json, name) ==
    IF name \notin DOMAIN json THEN Raise("ValidationError", "field required")
    ELSE IF ~IsStr(json[name])
    THEN Raise("ValidationError", "none is not an allowed value")
    ELSE Ok(json[name])

RequiredOptional(json, name) ==
    IF name \notin DOMAIN json THEN Raise("ValidationError", "field required")
    ELSE Ok(json[name])

S3ObjectInput(json) ==
    LET b == Required(json, "bucket_name")
        k == Required(json, "object_key")
    IN  IF ~b.ok THEN b
        ELSE IF ~k.ok THEN k
        ELSE Ok([bucket_name |-> b.val, object_key |-> k.val])

S3BucketInput(json) ==
    LET b == Required(json, "bucket_name")
        p == RequiredOptional(json, "object_prefix")
    IN  IF ~b.ok THEN b
        ELSE IF ~p.ok THEN p
        ELSE Ok([bucket_name |-> b.val, object_prefix |-> p.val])

-----------------------------------------------------------------------------
(* Handler plumbing.                                                       *)

NoLocals == [data |-> None, s3_client |-> None, file_extension |-> None,
             tags |-> None, response |-> None, dataframe |-> None]

\* file_extension kept in one variable shared by all requests
BindShared(r, name, value) ==
    IF name = "file_extension"
    THEN [s \in Slots |-> [local[s] EXCEPT ![name] = value]]
    ELSE [local EXCEPT ![r][name] = value]

\* an assignment to a local variable of the handler serving slot r
Bind(r, name, value) == [local EXCEPT ![r][name] = value]

Call(op, Bucket, Arg) == [op |-> op, Bucket |-> Bucket, Arg |-> Arg]

Advance(r, name, value, next) ==
    /\ local' = Bind(r, name, value)
    /\ pc' = [pc EXCEPT ![r] = next]
    /\ UNCHANGED resp

Finish(r, http, body) ==
    /\ resp' = [resp EXCEPT ![r] = [http |-> http, body |-> body]]
    /\ pc' = [pc EXCEPT ![r] = "done"]
    /\ UNCHANGED local

Invoke(r, c) == calls' = [calls EXCEPT ![r] = Append(@, c)]

\* f"The file could not be processed with error: {e}"
Message(e) ==
    [prefix |-> "The file could not be processed with error: ", error |-> e.text]

NoAllowedExtension ==
    [type |-> "ValueError", text |-> "The file does not have an allowed extension"]

\* an exception that leaves the handler: the framework answers 500
Propagate(r, e) == Finish(r, 500, [detail |-> "Internal Server Error"])

-----------------------------------------------------------------------------
(* The framework: parse and validate the body, then call the handler.      *)

FirstPc(route) ==
    CASE route = "/analyze_s3_object" -> "a_client"
      [] route = "/get_s3_object_stats" -> "s_client"
      [] route = BucketRoute -> "b_client"

Receive(r, q) ==
    /\ pc[r] = "idle"
    /\ req' = [req EXCEPT ![r] = q]
    /\ LET data == IF q.route = BucketRoute THEN S3BucketInput(q.json)
                   ELSE S3ObjectInput(q.json)
       IN  IF data.ok
           THEN Advance(r, "data", data.val, FirstPc(q.route))
           ELSE Finish(r, 422, [detail |-> data.err.text])
    /\ UNCHANGED <<creds, store, calls>>
    /\ UNCHANGED fvars

Deliver(r) ==
    /\ pc[r] = "done"
    /\ pc' = [pc EXCEPT ![r] = "idle"]
    /\ req' = [req EXCEPT ![r] = NoRequest]
    /\ local' = [local EXCEPT ![r] = NoLocals]
    /\ resp' = [resp EXCEPT ![r] = NoResponse]
    /\ calls' = [calls EXCEPT ![r] = <<>>]
    /\ UNCHANGED <<creds, store>>
    /\ UNCHANGED fvars

-----------------------------------------------------------------------------
(* analyze_s3_object(data)                                                 *)

analyze_except(r, e) == Finish(r, 200, [message |-> Message(e)])

analyze_client(r) ==
    /\ pc[r] = "a_client"
    /\ LET c == boto3_client(creds)
       IN  IF c.ok THEN Advance(r, "s3_client", c.val, "a_ext")
           ELSE Propagate(r, c.err)
    /\ UNCHANGED <<creds, store, req, calls>>
    /\ UNCHANGED fvars

analyze_extension(r) ==
    /\ pc[r] = "a_ext"
    /\ LET file_extension == get_file_extension(local[r].data.object_key)
       IN  IF file_extension = None THEN analyze_except(r, NoAllowedExtension)
           ELSE Advance(r, "file_extension", file_extension, "a_get")
    /\ UNCHANGED <<creds, store, req, calls>>
    /\ UNCHANGED fvars

analyze_get_object(r) ==
    /\ pc[r] = "a_get"
    /\ LET d == local[r].data
           response == get_object(store, d.bucket_name, d.object_key)
       IN  /\ Invoke(r, Call("get_object", d.bucket_name, d.object_key))
           /\ IF response.ok THEN Advance(r, "response", response.val, "a_df")
              ELSE analyze_except(r, response.err)
    /\ UNCHANGED <<creds, store, req>>
    /\ UNCHANGED fvars

analyze_dataframe(r) ==
    /\ pc[r] = "a_df"
    /\ LET dataframe == object_to_dataframe(local[r].response.Body,
                                            local[r].file_extension)
       IN  IF dataframe.ok THEN Advance(r, "dataframe", dataframe.val, "a_ret")
           ELSE analyze_except(r, dataframe.err)
    /\ UNCHANGED <<creds, store, req, calls>>
    /\ UNCHANGED fvars

\* DataFrame.to_dict('records'): one mapping from column name to cell per row
to_dict_records(dataframe) ==
    [i \in 1..Len(dataframe.rows) |->
        [c \in Range(dataframe.columns) |->
            dataframe.rows[i][CHOOSE j \in 1..Len(dataframe.columns) :
                                dataframe.columns[j] = c]]]

\* DataFrame.head(n)
head(dataframe, n) ==
    [dataframe EXCEPT !.rows = SubSeq(@, 1, Min(n, Len(@)))]

analyze_records_all(dataframe) == to_dict_records(dataframe)

\* dataframe.head(50).to_dict('records')
analyze_records(dataframe) == to_dict_records(head(dataframe, HeadLimit))

analyze_return(r) ==
    /\ pc[r] = "a_ret"
    /\ Finish(r, 200, [status |-> 200,
                       records |-> analyze_records(local[r].dataframe)])
    /\ UNCHANGED <<creds, store, req, calls>>
    /\ UNCHANGED fvars

-----------------------------------------------------------------------------
(* get_s3_object_stats(data), route /get_s3_object_stats                   *)

stats_except(r, e) == Finish(r, 200, [status |-> 400, message |-> Message(e)])

stats_client(r) ==
    /\ pc[r] = "s_client"
    /\ LET c == boto3_client(creds)
       IN  IF c.ok THEN Advance(r, "s3_client", c.val, "s_ext")
           ELSE Propagate(r, c.err)
    /\ UNCHANGED <<creds, store, req, calls>>
    /\ UNCHANGED fvars

stats_extension(r) ==
    /\ pc[r] = "s_ext"
    /\ LET file_extension == get_file_extension(local[r].data.object_key)
       IN  IF file_extension = None THEN stats_except(r, NoAllowedExtension)
           ELSE Advance(r, "file_extension", file_extension, "s_tags")
    /\ UNCHANGED <<creds, store, req, calls>>
    /\ UNCHANGED fvars

stats_get_object_tagging(r) ==
    /\ pc[r] = "s_tags"
    /\ LET d == local[r].data
           tags == get_object_tagging(store, d.bucket_name, d.object_key)
       IN  /\ Invoke(r, Call("get_object_tagging", d.bucket_name, d.object_key))
           /\ IF tags.ok THEN Advance(r, "tags", tags.val, "s_get")
              ELSE stats_except(r, tags.err)
    /\ UNCHANGED <<creds, store, req>>
    /\ UNCHANGED fvars

stats_get_object(r) ==
    /\ pc[r] = "s_get"
    /\ LET d == local[r].data
           response == get_object(store, d.bucket_name, d.object_key)
       IN  /\ Invoke(r, Call("get_object", d.bucket_name, d.object_key))
           /\ IF response.ok THEN Advance(r, "response", response.val, "s_df")
              ELSE stats_except(r, response.err)
    /\ UNCHANGED <<creds, store, req>>
    /\ UNCHANGED fvars

stats_dataframe(r) ==
    /\ pc[r] = "s_df"
    /\ LET dataframe == object_to_dataframe(local[r].response.Body,
                                            local[r].file_extension)
       IN  IF dataframe.ok THEN Advance(r, "dataframe", dataframe.val, "s_ret")
           ELSE stats_except(r, dataframe.err)
    /\ UNCHANGED <<creds, store, req, calls>>
    /\ UNCHANGED fvars

stats_return(r) ==
    /\ pc[r] = "s_ret"
    /\ Finish(r, 200, [status |-> 200,
                       metadata |-> local[r].tags,
                       statistics |-> get_object_statistics(local[r].dataframe)])
    /\ UNCHANGED <<creds, store, req, calls>>
    /\ UNCHANGED fvars

-----------------------------------------------------------------------------
(* get_s3_object_stats(data), route /get_s3_bucket_stats                   *)

bucket_except(r, e) == Finish(r, 200, [status |-> 400, message |-> Message(e)])

bucket_client(r) ==
    /\ pc[r] = "b_client"
    /\ LET c == boto3_client(creds)
       IN  IF c.ok THEN Advance(r, "s3_client", c.val, "b_list")
           ELSE Propagate(r, c.err)
    /\ UNCHANGED <<creds, store, req, calls>>
    /\ UNCHANGED fvars

\* `if data.object_prefix:` is false for None and for the empty string
Truthy(v) == v # None /\ v # EMPTY

ListPrefix(object_prefix) ==
    IF Truthy(object_prefix) THEN object_prefix ELSE NoPrefix

bucket_list_objects(r) ==
    /\ pc[r] = "b_list"
    /\ LET d == local[r].data
           Prefix == ListPrefix(d.object_prefix)
           response == list_objects_v2(store, d.bucket_name, Prefix)
       IN  /\ Invoke(r, Call("list_objects_v2", d.bucket_name, Prefix))
           /\ IF response.ok THEN Advance(r, "response", response.val, "b_ret")
              ELSE bucket_except(r, response.err)
    /\ UNCHANGED <<creds, store, req>>
    /\ UNCHANGED fvars

\* the comprehension over response["Contents"]
KeysAndSizes(contents) ==
    IF contents.ok
    THEN Ok([i \in 1..Len(contents.val) |->
                [Key |-> contents.val[i].Key, Size |-> contents.val[i].Size]])
    ELSE contents

bucket_objects_nodefault(response) ==
    KeysAndSizes(Member(response, "Contents"))

\* objects, from response.get("Contents", [])
bucket_objects(response) ==
    IF Len(GetContents(response)) > 0
    THEN KeysAndSizes(Member(response, "Contents"))
    ELSE Ok(<<>>)

bucket_return(r) ==
    /\ pc[r] = "b_ret"
    /\ LET response == local[r].response
           objects == bucket_objects(response)
           name == Member(response, "Name")
           count == Member(response, "KeyCount")
       IN  IF ~objects.ok THEN bucket_except(r, objects.err)
           ELSE IF ~name.ok THEN bucket_except(r, name.err)
           ELSE IF ~count.ok THEN bucket_except(r, count.err)
           ELSE Finish(r, 200, [status |-> 200,
                                bucket_name |-> name.val,
                                num_objects |-> count.val,
                                objects |-> objects.val])
    /\ UNCHANGED <<creds, store, req, calls>>
    /\ UNCHANGED fvars

-----------------------------------------------------------------------------
(* The helper pipeline: get_file_extension, object_to_dataframe and        *)
(* get_object_statistics applied to enumerated keys and bodies.            *)

KeyAlphabet == {"a", "."}

SeqsUpTo(S, n) == UNION {[1..k -> S] : k \in 0..n}

NamedKeys ==
    {K_A_CSV.str, K_P_PARQUET.str, K_N_TXT.str,
     <<"a", ".", "C", "S", "V">>, <<"c", "s", "v">>,
     <<"p", "a", "r", "q", "u", "e", "t">>, <<"a", ".", "b", ".", "c", "s", "v">>,
     <<"a", ".", "c", "s", "v", ".">>, <<"a", ".", "c", "s", "v", "x">>,
     <<".", "c", "s", "v">>, <<"a", "/", "c", "s", "v">>}

FnKeys == {Str(k) : k \in SeqsUpTo(KeyAlphabet, MaxKeyLen) \cup NamedKeys}

\* the fields a CSV cell is drawn from: missing, a number, a text
CsvFields == {<<>>, <<"7">>, <<"x">>}

CsvLine(f1, f2) == f1 \o <<";">> \o f2 \o <<"\n">>
CsvLines == {CsvLine(f1, f2) : f1 \in CsvFields, f2 \in CsvFields}

RECURSIVE Concat(_, _)
Concat(ls, i) == IF i = 0 THEN <<>> ELSE Concat(ls, i - 1) \o ls[i]

CsvTexts ==
    {<<"a", ";", "b", "\n">> \o Concat(ls, Len(ls)) :
        ls \in SeqsUpTo(CsvLines, MaxCsvRows)}

FnBodies ==
    {TextBody(t) : t \in CsvTexts}
    \cup {TextBody(<<>>), TextBody(<<"a", "\n", "1", ";", "2", "\n">>),
          ParquetBody(FiveRowFrame)}

NoResult == [ok |-> FALSE, err |-> [type |-> "", text |-> ""]]

FnIdle ==
    /\ fnPc = "off"
    /\ fnKey = EMPTY
    /\ fnBody = TextBody(<<>>)
    /\ fnExt = None
    /\ fnFrame = NoResult
    /\ fnStats = None

FnResolve ==
    /\ fnPc = "start"
    /\ fnExt' = get_file_extension(fnKey)
    /\ fnPc' = IF fnExt' = None THEN "noext" ELSE "resolved"
    /\ UNCHANGED <<fnKey, fnBody, fnFrame, fnStats>>
    /\ UNCHANGED svars

FnDecode ==
    /\ fnPc = "resolved"
    /\ fnFrame' = object_to_dataframe(fnBody, fnExt)
    /\ fnPc' = IF fnFrame'.ok THEN "decoded" ELSE "failed"
    /\ UNCHANGED <<fnKey, fnBody, fnExt, fnStats>>
    /\ UNCHANGED svars

FnSummarize ==
    /\ fnPc = "decoded"
    /\ fnStats' = get_object_statistics(fnFrame.val)
    /\ fnPc' = "summarized"
    /\ UNCHANGED <<fnKey, fnBody, fnExt, fnFrame>>
    /\ UNCHANGED svars

-----------------------------------------------------------------------------
(* Specifications.                                                         *)

ServerInit ==
    /\ creds \in Environments
    /\ store = TheStore
    /\ pc = [r \in Slots |-> "idle"]
    /\ req = [r \in Slots |-> NoRequest]
    /\ local = [r \in Slots |-> NoLocals]
    /\ resp = [r \in Slots |-> NoResponse]
    /\ calls = [r \in Slots |-> <<>>]

Init == ServerInit /\ FnIdle

Next ==
    \E r \in Slots :
    \/ \E q \in Requests : Receive(r, q)
    \/ analyze_client(r)
    \/ analyze_extension(r)
    \/ analyze_get_object(r)
    \/ analyze_dataframe(r)
    \/ analyze_return(r)
    \/ stats_client(r)
    \/ stats_extension(r)
    \/ stats_get_object_tagging(r)
    \/ stats_get_object(r)
    \/ stats_dataframe(r)
    \/ stats_return(r)
    \/ bucket_client(r)
    \/ bucket_list_objects(r)
    \/ bucket_return(r)
    \/ Deliver(r)

Spec == Init /\ [][Next]_vars

FnInit ==
    /\ creds = GoodCreds
    /\ store = TheStore
    /\ pc = [r \in Slots |-> "idle"]
    /\ req = [r \in Slots |-> NoRequest]
    /\ local = [r \in Slots |-> NoLocals]
    /\ resp = [r \in Slots |-> NoResponse]
    /\ calls = [r \in Slots |-> <<>>]
    /\ fnPc = "start"
    /\ fnKey \in FnKeys
    /\ fnBody \in FnBodies
    /\ fnExt = None
    /\ fnFrame = NoResult
    /\ fnStats = None

FnNext == FnResolve \/ FnDecode \/ FnSummarize

SpecFn == FnInit /\ [][FnNext]_vars

-----------------------------------------------------------------------------
(* Vocabulary of the properties.                                           *)

Done(r) == pc[r] = "done"
Route(r) == req[r].route
Body(r) == resp[r].body

\* the handler was entered and returned a value (success or caught failure)
Returned(r) == Done(r) /\ resp[r].http = 200

IsSuccessBody(b) ==
    \/ "records" \in DOMAIN b
    \/ "statistics" \in DOMAIN b
    \/ "objects" \in DOMAIN b

RequiredOf(route) ==
    IF route = BucketRoute THEN {"bucket_name"} ELSE {"bucket_name", "object_key"}

MissingOrEmpty(q) ==
    \E f \in RequiredOf(q.route) : f \notin DOMAIN q.json \/ q.json[f] = EMPTY

\* C1: every failure a handler returns has the shape {status, message} with a
\* status other than 200 and a message that embeds the error's description.
C1_UniformFailureShape ==
    \A r \in Slots :
        (Returned(r) /\ ~IsSuccessBody(Body(r))) =>
            /\ DOMAIN Body(r) = {"status", "message"}
            /\ Body(r).status # 200
            /\ Body(r).message.error # ""

\* C2: no exception propagates out of a handler: every step's failure,
\* store-client construction included, becomes the handler's failure response.
C2_NoExceptionEscapes ==
    \A r \in Slots : Done(r) => resp[r].http # 500

\* C3: a request whose required field is missing or the empty string is
\* rejected before any store operation is invoked.
C3_InvalidRejectedBeforeStore ==
    \A r \in Slots :
        (pc[r] # "idle" /\ MissingOrEmpty(req[r])) => calls[r] = <<>>

\* the frame object_to_dataframe yields for each object of the data bucket
DecodedObjects ==
    [i \in 1..Len(TheStore[B_DATA]) |->
        object_to_dataframe(TheStore[B_DATA][i].Body,
                            get_file_extension(TheStore[B_DATA][i].Key))]

DecodedOf(key) ==
    DecodedObjects[CHOOSE i \in 1..Len(TheStore[B_DATA]) :
                        TheStore[B_DATA][i].Key = key]

RowDict(f, i) ==
    [c \in Range(f.columns) |->
        f.rows[i][CHOOSE j \in 1..Len(f.columns) : f.columns[j] = c]]

AnalyzesDecodable(r) ==
    /\ Route(r) = "/analyze_s3_object"
    /\ Returned(r)
    /\ req[r].json["bucket_name"] = B_DATA
    /\ \E i \in 1..Len(TheStore[B_DATA]) :
            TheStore[B_DATA][i].Key = req[r].json["object_key"]
    /\ DecodedOf(req[r].json["object_key"]).ok

\* C4: for a decodable object of n rows analyzeObject answers status 200 with
\* exactly the first min(n, 50) rows of the decoded frame, in source order.
C4_PreviewFirstRows ==
    \A r \in Slots :
        AnalyzesDecodable(r) =>
            LET f == DecodedOf(req[r].json["object_key"]).val
                n == Len(f.rows)
            IN  /\ DOMAIN Body(r) = {"status", "records"}
                /\ Body(r).status = 200
                /\ Len(Body(r).records) = Min(n, 50)
                /\ Len(Body(r).records) <= 50
                /\ \A i \in 1..Len(Body(r).records) :
                        Body(r).records[i] = RowDict(f, i)

C4_Witness ==
    \E r \in Slots :
        /\ AnalyzesDecodable(r)
        /\ req[r].json["object_key"] = K_BIG_CSV
        /\ Len(DecodedOf(K_BIG_CSV).val.rows) > 50
        /\ Len(Body(r).records) = 50
        /\ Body(r).records[50][<<"i", "d">>] = IntCell(50)

HasDot(k) == \E i \in 1..Len(k) : k[i] = "."
LastDot(k) == CHOOSE i \in 1..Len(k) : k[i] = "." /\ \A j \in (i + 1)..Len(k) : k[j] # "."
AfterLastDot(k) == IF HasDot(k) THEN SubSeq(k, LastDot(k) + 1, Len(k)) ELSE k

C7_StatisticsCountNulls ==
    fnPc = "summarized" =>
        LET f == fnFrame.val
        IN  /\ fnStats.rows.count = Len(f.rows)
            /\ Len(fnStats.columns) = Len(f.columns)
            /\ \A j \in 1..Len(f.columns) :
                /\ fnStats.columns[j].name = f.columns[j]
                /\ fnStats.columns[j].type = f.dtypes[j]
                /\ fnStats.columns[j].null_value_count =
                        Cardinality({i \in 1..Len(f.rows) : f.rows[i][j] = Null})

C7_Witness ==
    /\ fnPc = "summarized"
    /\ fnBody = ParquetBody(FiveRowFrame)
    /\ fnStats.rows.count = 5
    /\ fnStats.columns[2].null_value_count = 2
    /\ fnStats.columns[1].null_value_count = 0

Listed(bucket, prefix) ==
    SelectSeq(store[bucket],
              LAMBDA o : prefix = NoPrefix \/ StartsWith(o.Key.str, prefix.str))

\* a bucketStats request that reached the store, on a bucket that exists
ListsExisting(r) ==
    /\ Route(r) = BucketRoute
    /\ Done(r)
    /\ calls[r] # <<>>
    /\ calls[r][1].Bucket \in DOMAIN store

\* C8: on an existing bucket bucketStats answers status 200 with one {key, size}
\* per object the listing reports and num_objects equal to their number; an
\* empty bucket gives num_objects = 0 and objects = [].
C8_BucketStatsListing ==
    \A r \in Slots :
        ListsExisting(r) =>
            LET l == Listed(calls[r][1].Bucket, calls[r][1].Arg)
            IN  /\ resp[r].http = 200
                /\ DOMAIN Body(r) = {"status", "bucket_name", "num_objects", "objects"}
                /\ Body(r).status = 200
                /\ Len(Body(r).objects) = Len(l)
                /\ \A i \in 1..Len(l) :
                        Body(r).objects[i] = [Key |-> l[i].Key, Size |-> l[i].Size]
                /\ Body(r).num_objects = Len(Body(r).objects)

C8_Witness ==
    \E r \in Slots :
        /\ ListsExisting(r)
        /\ calls[r][1].Bucket = B_EMPTY
        /\ Body(r).status = 200
        /\ Body(r).num_objects = 0
        /\ Body(r).objects = <<>>

WholeBucketPrefixes == {Absent, None, EMPTY}

PrefixOf(q) ==
    IF "object_prefix" \in DOMAIN q.json THEN q.json["object_prefix"] ELSE Absent

\* C9: bucketStats with object_prefix absent, null or empty lists the whole
\* bucket (listObjects is called with no prefix and the request succeeds); with
\* a non-empty prefix it lists under that prefix.
C9_PrefixSelectsListing ==
    \A r \in Slots :
        (/\ Route(r) = BucketRoute
         /\ Done(r)
         /\ creds = GoodCreds
         /\ "bucket_name" \in DOMAIN req[r].json
         /\ req[r].json["bucket_name"] \in DOMAIN store) =>
            LET b == req[r].json["bucket_name"]
                p == PrefixOf(req[r])
            IN  /\ resp[r].http = 200
                /\ Body(r).status = 200
                /\ calls[r] = <<Call("list_objects_v2", b,
                                     IF p \in WholeBucketPrefixes THEN NoPrefix ELSE p)>>

\* the response a request gets when it is served alone
Failure(route, e) ==
    [http |-> 200,
     body |-> IF route = "/analyze_s3_object" THEN [message |-> Message(e)]
              ELSE [status |-> 400, message |-> Message(e)]]

AloneObject(q, d) ==
    LET ext == get_file_extension(d.object_key)
        tags == get_object_tagging(TheStore, d.bucket_name, d.object_key)
        obj == get_object(TheStore, d.bucket_name, d.object_key)
        df == object_to_dataframe(obj.val.Body, ext)
    IN  IF ext = None THEN Failure(q.route, NoAllowedExtension)
        ELSE IF q.route = "/get_s3_object_stats" /\ ~tags.ok
        THEN Failure(q.route, tags.err)
        ELSE IF ~obj.ok THEN Failure(q.route, obj.err)
        ELSE IF ~df.ok THEN Failure(q.route, df.err)
        ELSE IF q.route = "/analyze_s3_object"
        THEN [http |-> 200,
              body |-> [status |-> 200,
                        records |-> to_dict_records(head(df.val, HeadLimit))]]
        ELSE [http |-> 200,
              body |-> [status |-> 200, metadata |-> tags.val,
                        statistics |-> get_object_statistics(df.val)]]

AloneBucket(q, d) ==
    LET l == list_objects_v2(TheStore, d.bucket_name, ListPrefix(d.object_prefix))
    IN  IF ~l.ok THEN Failure(q.route, l.err)
        ELSE [http |-> 200,
              body |-> [status |-> 200, bucket_name |-> l.val.Name,
                        num_objects |-> l.val.KeyCount,
                        objects |-> [i \in 1..Len(l.val.Contents) |->
                            [Key |-> l.val.Contents[i].Key,
                             Size |-> l.val.Contents[i].Size]]]]

Alone(q, env) ==
    LET d == IF q.route = BucketRoute THEN S3BucketInput(q.json)
             ELSE S3ObjectInput(q.json)
    IN  IF ~d.ok THEN [http |-> 422, body |-> [detail |-> d.err.text]]
        ELSE IF ~boto3_client(env).ok
        THEN [http |-> 500, body |-> [detail |-> "Internal Server Error"]]
        ELSE IF q.route = BucketRoute THEN AloneBucket(q, d.val)
        ELSE AloneObject(q, d.val)

AloneResponse == [q \in Requests, env \in Environments |-> Alone(q, env)]

\* C10: requests are independent: the store and the credentials are never
\* written, and under every interleaving a request's response is the one it
\* gets when served alone.
C10_ResponseIndependent ==
    /\ store = TheStore
    /\ creds \in Environments
    /\ \A r \in Slots : Done(r) => resp[r] = AloneResponse[req[r], creds]

C10_Witness ==
    /\ pc[1] = "done"
    /\ pc[2] = "s_df"
    /\ req[1].route = "/analyze_s3_object"
    /\ req[2].route = "/get_s3_object_stats"
    /\ calls[1] # <<>>
    /\ calls[1][1].Arg = K_N_TXT
    /\ calls[2][1].Arg = K_A_CSV
    /\ local[2].file_extension = EXT_CSV
    /\ resp[1] = AloneResponse[req[1], creds]

====
